---- MODULE Spec2Model ----
(***************************************************************************)
(* Model of the ESO Paranal sqlite3 pipeline:                              *)
(*   pipeline/database.py  DatabaseInterface (the catalog store) and       *)
(*                         register_fits_files (the ingestion loop)        *)
(*   pipeline/reducer.py   reduce_science_file (the reduction)             *)
(*                                                                         *)
(* The store is the five sqlite tables.  Every table is a sequence of rows *)
(* whose position is the INTEGER PRIMARY KEY id (rows are never deleted,   *)
(* so sqlite hands out 1, 2, 3, ...).  Each commit of the ingestion loop   *)
(* is one step, so the process can be killed between any two commits.      *)
(***************************************************************************)
EXTENDS Integers, Sequences, FiniteSets, TLC

(***************************************************************************)
(* Bounds of the model.                                                    *)
(***************************************************************************)
\* number of files in the ingested directory
MaxFiles == 2
\* number of times register_fits_files is started
MaxRuns == 2
\* number of files in the directories the driver's queries are run on
MaxMatchFiles == 3

(***************************************************************************)
(* Python / SQL values.                                                    *)
(***************************************************************************)
\* Python None, stored by sqlite as NULL
NULL == "<None>"

\* a header value for CDELT1 / CDELT2: absent (header.get gives None), a
\* number, or a text that is no integer literal
AbsentVal == [kind |-> "absent", val |-> 0]
IntVal(n) == [kind |-> "int", val |-> n]
TextVal == [kind |-> "text", val |-> 0]

\* int(v): the exception it raises, "" when it converts
IntError(v) ==
    CASE v.kind = "absent" -> "TypeError"
      [] v.kind = "text" -> "ValueError"
      [] OTHER -> ""

\* Truthy with the test written `is not None`: an empty string passes
TruthyNotNone(v) == v # NULL

\* Python truthiness of an str-or-None value (`if object_name and date`)
Truthy(v) == v # NULL /\ v # ""

\* Python `sub in s` for two strings
Contains(sub, s) ==
    \E i \in 1..(Len(s) - Len(sub) + 1) : SubSeq(s, i, i + Len(sub) - 1) = sub

\* f"{v}" of an str-or-None value
Fmt(v) == IF v = NULL THEN "None" ELSE v

\* SQL `a = b`: never true when either side is NULL
SqlEq(a, b) == a # NULL /\ b # NULL /\ a = b

(***************************************************************************)
(* The directory: the files glob('*.fits*') enumerates and their headers.  *)
(***************************************************************************)
\* a CALIB flat, binning 1x1, filter R, read speed fast
HdrBase ==
    [readable |-> TRUE, cdelt1 |-> IntVal(1), cdelt2 |-> IntVal(1),
     filter |-> "R", category |-> "CALIB", type |-> "FLAT",
     mjd |-> "59000.5", exposure_time |-> "10.0", read_speed |-> "fast",
     date |-> NULL, object_name |-> NULL]

\* a SCIENCE exposure of object a at date d, same configuration as HdrBase
HdrSci ==
    [HdrBase EXCEPT !.category = "SCIENCE", !.type = "OBJECT",
                    !.object_name = "a", !.date = "d"]

Headers ==
    { HdrBase,
      [HdrBase EXCEPT !.type = "FLAT,SKY", !.filter = "V"],
      [HdrBase EXCEPT !.filter = NULL],
      [HdrBase EXCEPT !.type = "DARK"],
      [HdrBase EXCEPT !.type = "DARK", !.cdelt1 = IntVal(2)],
      [HdrBase EXCEPT !.type = "DARK,TEST"],
      [HdrBase EXCEPT !.type = NULL],
      [HdrBase EXCEPT !.category = "OTHER"],
      [HdrBase EXCEPT !.category = NULL],
      [HdrBase EXCEPT !.readable = FALSE],
      [HdrBase EXCEPT !.cdelt1 = AbsentVal],
      [HdrBase EXCEPT !.cdelt2 = TextVal],
      HdrSci,
      [HdrSci EXCEPT !.filter = "V"],
      [HdrSci EXCEPT !.filter = NULL],
      [HdrSci EXCEPT !.object_name = "a__b", !.date = "c"],
      [HdrSci EXCEPT !.object_name = "a", !.date = "b__c"],
      [HdrSci EXCEPT !.object_name = NULL],
      [HdrSci EXCEPT !.date = NULL],
      [HdrSci EXCEPT !.object_name = ""] }

\* the headers of the directories the driver's queries are run on: flats,
\* darks and science exposures of several configurations
MatchHeaders ==
    { HdrBase,
      [HdrBase EXCEPT !.type = "FLAT,SKY", !.filter = "V"],
      [HdrBase EXCEPT !.filter = NULL],
      [HdrBase EXCEPT !.read_speed = "slow"],
      [HdrBase EXCEPT !.cdelt2 = IntVal(2)],
      [HdrBase EXCEPT !.type = "DARK"],
      [HdrBase EXCEPT !.type = "DARK", !.cdelt1 = IntVal(2)],
      HdrSci,
      [HdrSci EXCEPT !.object_name = "c", !.filter = NULL] }

\* the path of the i-th enumerated file
PathOf(i) == "f" \o ToString(i) \o ".fits"

Directories ==
    { [i \in 1..MaxFiles |-> [path |-> PathOf(i), header |-> hs[i]]] :
        hs \in [1..MaxFiles -> Headers] }

MatchDirectories ==
    { [i \in 1..MaxMatchFiles |-> [path |-> PathOf(i), header |-> hs[i]]] :
        hs \in [1..MaxMatchFiles -> MatchHeaders] }

VARIABLES
    dir,           \* the directory: sequence of [path, header]
    raw_files,     \* table raw_files
    flats,         \* table flats
    darks,         \* table darks
    science,       \* table science
    reduced_data,  \* table reduced_data
    pc,            \* where register_fits_files is
    idx,           \* index in fits_files of the file being processed
    raw_file_id,   \* the id add_raw_file returned for that file
    err,           \* the exception that ended the run and what raised it
    out,           \* what was printed, oldest first
    runs,          \* number of runs started
    prevCatalog,   \* catalog tables as the previous run left them
    ret,           \* outcome of the store call made in the last step
    science_data,  \* reduce_science_file: pixels of the file at science_file_path
    flat_data,     \* pixels of each file of flat_files
    dark_data,     \* pixels of each file of dark_files
    out_file,      \* the file at output_reduced_file_path
    red_pc,        \* where reduce_science_file is
    raw_run,       \* for each raw_files row, the run that inserted it
    procs          \* the concurrent callers of the store and where they are

\* the state of a reduction
redVars == <<science_data, flat_data, dark_data, out_file, red_pc>>

vars == <<dir, raw_files, flats, darks, science, reduced_data, pc, idx,
          raw_file_id, err, out, runs, prevCatalog, ret, redVars,
          raw_run, procs>>

catalog == <<raw_files, flats, darks, science>>
NoCatalog == <<>>

(***************************************************************************)
(* DatabaseInterface                                                       *)
(***************************************************************************)
\* raw_file_exists: SELECT id FROM raw_files WHERE path = ?
raw_file_exists(path) == \E i \in 1..Len(raw_files) : raw_files[i].path = path

\* the row add_raw_file inserts for file_info, with the id sqlite gives it
RawRow(file_info) ==
    [id |-> Len(raw_files) + 1,
     path |-> file_info.path,
     binning |-> file_info.binning,
     filter |-> file_info.filter,
     category |-> file_info.category,
     type |-> file_info.type,
     mjd |-> file_info.mjd,
     exposure_time |-> file_info.exposure_time,
     read_speed |-> file_info.read_speed,
     object_name |-> file_info.object_name,
     date |-> file_info.date]

\* add_flat with the filter and read_speed columns exchanged
FlatRowColumnsSwapped(rid, binning, filter_name, read_speed) ==
    [id |-> Len(flats) + 1, raw_file_id |-> rid, binning |-> binning,
     filter |-> read_speed, read_speed |-> filter_name]

\* the row add_flat inserts
FlatRow(rid, binning, filter_name, read_speed) ==
    [id |-> Len(flats) + 1, raw_file_id |-> rid, binning |-> binning,
     filter |-> filter_name, read_speed |-> read_speed]

\* add_dark recording the dark against the first raw_files row
DarkRowOfFirstFile(rid, binning, read_speed) ==
    [id |-> Len(darks) + 1, raw_file_id |-> 1, binning |-> binning,
     read_speed |-> read_speed]

\* the row add_dark inserts
DarkRow(rid, binning, read_speed) ==
    [id |-> Len(darks) + 1, raw_file_id |-> rid, binning |-> binning,
     read_speed |-> read_speed]

\* unique_key with the separator mistyped as a single underscore
unique_key_one_underscore(object_name, date) == Fmt(object_name) \o "_" \o Fmt(date)

\* add_science: unique_key = f"{object_name}__{date}"
unique_key(object_name, date) == Fmt(object_name) \o "__" \o Fmt(date)

\* add_science: SELECT id FROM science WHERE unique_key = ?
science_key_exists(key) == \E i \in 1..Len(science) : science[i].unique_key = key

\* the row add_science inserts
ScienceRow(rid, object_name, date) ==
    [id |-> Len(science) + 1, raw_file_id |-> rid,
     unique_key |-> unique_key(object_name, date),
     object_name |-> object_name, date |-> date]

(***************************************************************************)
(* register_fits_files                                                     *)
(***************************************************************************)
\* the binning string f"{cdelt1}x{cdelt2}"
Binning(h) == ToString(h.cdelt1.val) \o "x" \o ToString(h.cdelt2.val)

\* file_info as register_fits_files builds it from the header
FileInfo(f) ==
    [path |-> f.path,
     binning |-> Binning(f.header),
     filter |-> f.header.filter,
     category |-> f.header.category,
     type |-> f.header.type,
     mjd |-> f.header.mjd,
     exposure_time |-> f.header.exposure_time,
     read_speed |-> f.header.read_speed,
     date |-> f.header.date,
     object_name |-> f.header.object_name]

\* the exception int(header.get('CDELT1')), int(header.get('CDELT2')) raise
CdeltError(h) ==
    IF IntError(h.cdelt1) # "" THEN IntError(h.cdelt1) ELSE IntError(h.cdelt2)

Msg(kind, arg) == [kind |-> kind, arg |-> arg]

\* an uncaught exception: its type and the expression that raised it
Raised(exc, at) == [exc |-> exc, at |-> at]
NoErr == Raised("", "")

\* the outcome of a store call: what it returned or raised
Ret(op, arg, outcome, exc, path, fl, dk, keys) ==
    [op |-> op, arg |-> arg, outcome |-> outcome, exc |-> exc, path |-> path,
     flats |-> fl, darks |-> dk, keys |-> keys]
NoRet == Ret("", "", "", "", "", {}, {}, <<>>)

\* no reduction is under way
NoFile == [data |-> <<>>, REDUC |-> ""]
NoReduction ==
    /\ science_data = <<>>
    /\ flat_data = <<>>
    /\ dark_data = <<>>
    /\ out_file = NoFile
    /\ red_pc = "none"

\* no concurrent caller
NoProcs == <<>>

Init ==
    /\ dir \in Directories
    /\ raw_files = <<>>
    /\ flats = <<>>
    /\ darks = <<>>
    /\ science = <<>>
    /\ reduced_data = <<>>
    /\ pc = "idle"
    /\ idx = 0
    /\ raw_file_id = 0
    /\ err = NoErr
    /\ out = <<>>
    /\ runs = 0
    /\ prevCatalog = NoCatalog
    /\ ret = NoRet
    /\ NoReduction
    /\ raw_run = <<>>
    /\ procs = NoProcs

\* register_fits_files is started: the tables exist already, glob lists dir
StartRun ==
    /\ pc \in {"idle", "done", "aborted", "killed"}
    /\ runs < MaxRuns
    /\ runs' = runs + 1
    /\ pc' = "open"
    /\ idx' = 1
    /\ raw_file_id' = 0
    /\ err' = NoErr
    /\ prevCatalog' = IF pc \in {"done", "aborted"} THEN catalog ELSE NoCatalog
    /\ ret' = NoRet
    /\ UNCHANGED redVars
    /\ UNCHANGED raw_run
    /\ UNCHANGED procs
    /\ UNCHANGED <<dir, raw_files, flats, darks, science, reduced_data, out>>

\* one loop iteration up to the commit of add_raw_file
OpenFile ==
    /\ pc = "open"
    /\ idx <= Len(dir)
    /\ LET f == dir[idx]
           h == f.header
       IN  IF ~h.readable
           THEN \* fits.open raised: print and continue
                /\ out' = Append(out, Msg("error_reading", f.path))
                /\ idx' = idx + 1
                /\ UNCHANGED <<raw_files, pc, raw_file_id, err>>
           ELSE IF CdeltError(h) # ""
           THEN \* int(None) or int('text') raised outside the try
                /\ pc' = "aborted"
                /\ err' = Raised(CdeltError(h), "int(header.get(CDELT))")
                /\ UNCHANGED <<raw_files, idx, raw_file_id, out>>
           ELSE IF raw_file_exists(FileInfo(f).path)
           THEN \* add_raw_file returned None: continue
                /\ idx' = idx + 1
                /\ UNCHANGED <<raw_files, pc, raw_file_id, err, out>>
           ELSE \* add_raw_file inserted and committed the row
                /\ raw_files' = Append(raw_files, RawRow(FileInfo(f)))
                /\ raw_file_id' = Len(raw_files) + 1
                /\ pc' = "classify"
                /\ UNCHANGED <<idx, err, out>>
    /\ ret' = NoRet
    /\ UNCHANGED redVars
    /\ raw_run' = IF raw_files' # raw_files THEN Append(raw_run, runs) ELSE raw_run
    /\ UNCHANGED procs
    /\ UNCHANGED <<dir, flats, darks, science, reduced_data, runs, prevCatalog>>

\* the rest of the iteration: the flats / darks / science row
Classify ==
    /\ pc = "classify"
    /\ LET file_info == FileInfo(dir[idx])
       IN  IF file_info.category = "CALIB"
           THEN IF file_info.type = NULL
                THEN \* 'FLAT' in None raises TypeError
                     /\ pc' = "aborted"
                     /\ err' = Raised("TypeError", "'FLAT' in type")
                     /\ UNCHANGED <<flats, darks, science, idx, out>>
                ELSE IF Contains("FLAT", file_info.type)
                THEN /\ flats' = Append(flats, FlatRow(raw_file_id, file_info.binning,
                                                       file_info.filter, file_info.read_speed))
                     /\ pc' = "open"
                     /\ idx' = idx + 1
                     /\ UNCHANGED <<darks, science, err, out>>
                ELSE IF file_info.type = "DARK"
                THEN /\ darks' = Append(darks, DarkRow(raw_file_id, file_info.binning,
                                                       file_info.read_speed))
                     /\ pc' = "open"
                     /\ idx' = idx + 1
                     /\ UNCHANGED <<flats, science, err, out>>
                ELSE /\ out' = Append(out, Msg("unknown_calibration_type", file_info.path))
                     /\ pc' = "open"
                     /\ idx' = idx + 1
                     /\ UNCHANGED <<flats, darks, science, err>>
           ELSE IF file_info.category = "SCIENCE"
           THEN IF Truthy(file_info.object_name) /\ Truthy(file_info.date)
                THEN IF science_key_exists(unique_key(file_info.object_name, file_info.date))
                     THEN \* add_science printed and returned None
                          /\ out' = Append(out, Msg("science_exists",
                                        unique_key(file_info.object_name, file_info.date)))
                          /\ pc' = "open"
                          /\ idx' = idx + 1
                          /\ UNCHANGED <<flats, darks, science, err>>
                     ELSE /\ science' = Append(science, ScienceRow(raw_file_id,
                                            file_info.object_name, file_info.date))
                          /\ pc' = "open"
                          /\ idx' = idx + 1
                          /\ UNCHANGED <<flats, darks, err, out>>
                ELSE /\ out' = Append(out, Msg("missing_object_or_date", file_info.path))
                     /\ pc' = "open"
                     /\ idx' = idx + 1
                     /\ UNCHANGED <<flats, darks, science, err>>
           ELSE /\ out' = Append(out, Msg("unknown_category", file_info.path))
                /\ pc' = "open"
                /\ idx' = idx + 1
                /\ UNCHANGED <<flats, darks, science, err>>
    /\ ret' = NoRet
    /\ UNCHANGED redVars
    /\ UNCHANGED raw_run
    /\ UNCHANGED procs
    /\ UNCHANGED <<dir, raw_files, reduced_data, raw_file_id, runs, prevCatalog>>

\* the loop is over
EndRun ==
    /\ pc = "open"
    /\ idx > Len(dir)
    /\ pc' = "done"
    /\ ret' = NoRet
    /\ UNCHANGED redVars
    /\ UNCHANGED raw_run
    /\ UNCHANGED procs
    /\ UNCHANGED <<dir, raw_files, flats, darks, science, reduced_data, idx,
                   raw_file_id, err, out, runs, prevCatalog>>

\* the process is killed between two commits
Kill ==
    /\ pc \in {"open", "classify"}
    /\ pc' = "killed"
    /\ ret' = NoRet
    /\ UNCHANGED redVars
    /\ UNCHANGED raw_run
    /\ UNCHANGED procs
    /\ UNCHANGED <<dir, raw_files, flats, darks, science, reduced_data, idx,
                   raw_file_id, err, out, runs, prevCatalog>>

Next == StartRun \/ OpenFile \/ Classify \/ EndRun \/ Kill

Spec == Init /\ [][Next]_vars

(***************************************************************************)
(* The driver's calls on the store: the queries and add_reduced_data.      *)
(***************************************************************************)
\* the rows of a table, as a set
Rows(table) == { table[i] : i \in 1..Len(table) }

\* the reduced_data rows the LEFT JOIN pairs with science row s
JoinedReduced(s) ==
    { r \in Rows(reduced_data) : SqlEq(s.unique_key, r.science_unique_key) }

\* IsUnreduced with the WHERE clause left out: every science row is kept
IsUnreducedNoWhere(s) == TRUE

\* the science rows the query keeps: WHERE reduced_data.id IS NULL
IsUnreduced(s) == JoinedReduced(s) = {}

\* get_unreduced_science_files: the unique_key column of the anti-join
UnreducedKeys ==
    LET kept == SelectSeq(science, IsUnreduced)
    IN  [i \in 1..Len(kept) |-> kept[i].unique_key]

\* get_files_for_science: science JOIN raw_files WHERE s.unique_key = ?
ScienceRawRows(science_id) ==
    { rf \in Rows(raw_files) :
        \E s \in Rows(science) :
            s.raw_file_id = rf.id /\ SqlEq(s.unique_key, science_id) }

\* FlatMatches with the filter condition left out (the darks' WHERE clause)
FlatMatchesNoFilter(f, binning, read_speed, filter_name) ==
    /\ SqlEq(f.binning, binning)
    /\ SqlEq(f.read_speed, read_speed)

\* WHERE f.binning = ? AND f.read_speed = ? AND f.filter = ?
FlatMatches(f, binning, read_speed, filter_name) ==
    /\ SqlEq(f.binning, binning)
    /\ SqlEq(f.read_speed, read_speed)
    /\ SqlEq(f.filter, filter_name)

\* WHERE d.binning = ? AND d.read_speed = ?
DarkMatches(d, binning, read_speed) ==
    /\ SqlEq(d.binning, binning)
    /\ SqlEq(d.read_speed, read_speed)

\* flats_df: SELECT rf.* FROM flats f JOIN raw_files rf ON f.raw_file_id = rf.id
FlatsFor(binning, read_speed, filter_name) ==
    { rf \in Rows(raw_files) :
        \E f \in Rows(flats) :
            f.raw_file_id = rf.id /\ FlatMatches(f, binning, read_speed, filter_name) }

\* darks_df: SELECT rf.* FROM darks d JOIN raw_files rf ON d.raw_file_id = rf.id
DarksFor(binning, read_speed) ==
    { rf \in Rows(raw_files) :
        \E d \in Rows(darks) :
            d.raw_file_id = rf.id /\ DarkMatches(d, binning, read_speed) }

\* the outcome of get_files_for_science(science_id): the first SELECT gives
\* the path, the second (the same join) the parameters
FilesForScience(science_id) ==
    IF ScienceRawRows(science_id) = {}
    THEN \* `science_raw_path, = cursor.fetchone()` unpacks None
         Ret("get_files_for_science", science_id, "raise", "TypeError", "", {}, {}, <<>>)
    ELSE LET rf == CHOOSE r \in ScienceRawRows(science_id) : TRUE
             result == ScienceRawRows(science_id)
         IN  IF result = {}
             THEN \* `if not result`: print and return None
                  Ret("get_files_for_science", science_id, "none", "", "", {}, {}, <<>>)
             ELSE Ret("get_files_for_science", science_id, "return", "", rf.path,
                      FlatsFor(rf.binning, rf.read_speed, rf.filter),
                      DarksFor(rf.binning, rf.read_speed), <<>>)

\* ReducedConflict as if any stored row made the INSERT OR IGNORE skip
ReducedConflictAnyRow(science_unique_key, reduced_path) == reduced_data # <<>>

\* add_reduced_data: INSERT OR IGNORE skips the row on either UNIQUE column
ReducedConflict(science_unique_key, reduced_path) ==
    \E r \in Rows(reduced_data) :
        \/ SqlEq(r.science_unique_key, science_unique_key)
        \/ SqlEq(r.reduced_path, reduced_path)

\* the science ids and output paths the driver calls the store with
\* (a cataloged key, or one key that no science row has)
UnknownKey == "zz__zz"
KeyArgs == { science[i].unique_key : i \in 1..Len(science) } \cup { UnknownKey }
ReducedPaths == { "r1.fits", "r2.fits" }

\* the pipeline is one process: the driver runs when no ingestion loop does
DriverTurn == pc \in {"idle", "done", "aborted", "killed"}

GetUnreduced ==
    /\ DriverTurn
    /\ UNCHANGED redVars
    /\ UNCHANGED raw_run
    /\ UNCHANGED procs
    /\ ret' = Ret("get_unreduced_science_files", "", "return", "", "", {}, {}, UnreducedKeys)
    /\ UNCHANGED <<dir, raw_files, flats, darks, science, reduced_data, pc, idx,
                   raw_file_id, err, out, runs, prevCatalog>>

GetFilesForScience(science_id) ==
    /\ DriverTurn
    /\ UNCHANGED redVars
    /\ UNCHANGED raw_run
    /\ UNCHANGED procs
    /\ ret' = FilesForScience(science_id)
    /\ out' = IF FilesForScience(science_id).outcome = "none"
              THEN Append(out, Msg("no_science_file", science_id))
              ELSE out
    /\ UNCHANGED <<dir, raw_files, flats, darks, science, reduced_data, pc, idx,
                   raw_file_id, err, runs, prevCatalog>>

AddReducedData(science_unique_key, reduced_path) ==
    /\ DriverTurn
    /\ UNCHANGED redVars
    /\ UNCHANGED raw_run
    /\ UNCHANGED procs
    /\ reduced_data' =
          IF ReducedConflict(science_unique_key, reduced_path)
          THEN reduced_data
          ELSE Append(reduced_data,
                      [id |-> Len(reduced_data) + 1,
                       science_unique_key |-> science_unique_key,
                       reduced_path |-> reduced_path])
    /\ ret' = Ret("add_reduced_data", "", "return", "", "", {}, {}, <<>>)
    /\ UNCHANGED <<dir, raw_files, flats, darks, science, pc, idx,
                   raw_file_id, err, out, runs, prevCatalog>>

\* a fresh store; the directory is ingested by the last of the runs
InitQuery ==
    /\ dir \in MatchDirectories
    /\ raw_files = <<>>
    /\ flats = <<>>
    /\ darks = <<>>
    /\ science = <<>>
    /\ reduced_data = <<>>
    /\ pc = "idle"
    /\ idx = 0
    /\ raw_file_id = 0
    /\ err = NoErr
    /\ out = <<>>
    /\ runs = MaxRuns - 1
    /\ prevCatalog = NoCatalog
    /\ ret = NoRet
    /\ NoReduction
    /\ raw_run = <<>>
    /\ procs = NoProcs

NextQuery ==
    \/ StartRun
    \/ OpenFile
    \/ Classify
    \/ EndRun
    \/ GetUnreduced
    \/ \E k \in KeyArgs : GetFilesForScience(k)
    \/ \E k \in KeyArgs, p \in ReducedPaths : AddReducedData(k, p)

SpecQuery == InitQuery /\ [][NextQuery]_vars

(***************************************************************************)
(* reduce_science_file.  A pixel value is a float: a finite number, kept   *)
(* as the fraction n/d in lowest terms with d > 0, or nan, or +inf / -inf  *)
(* (n = 1 / n = -1).  An image is the sequence of its pixels; the result   *)
(* of a numpy reduction is an array of that length or a 0-d scalar.        *)
(***************************************************************************)
RECURSIVE Gcd(_, _)
Gcd(a, b) == IF b = 0 THEN a ELSE Gcd(b, a % b)

Abs(n) == IF n < 0 THEN -n ELSE n

\* the float n/d, d # 0
Num(n, d) ==
    LET sn == IF d < 0 THEN -n ELSE n
        sd == Abs(d)
        g == Gcd(Abs(sn), sd)
    IN  [k |-> "num", n |-> sn \div g, d |-> sd \div g]
NaN == [k |-> "nan", n |-> 0, d |-> 1]
Inf(sign) == [k |-> "inf", n |-> sign, d |-> 1]

\* a - b, for finite or nan operands
Sub(a, b) ==
    IF a.k = "nan" \/ b.k = "nan" THEN NaN
    ELSE Num(a.n * b.d - b.n * a.d, a.d * b.d)

\* a / b in IEEE arithmetic, for a finite or nan
Div(a, b) ==
    CASE a.k = "nan" \/ b.k = "nan" -> NaN
      [] b.k = "inf" -> Num(0, 1)
      [] b.n = 0 /\ a.n = 0 -> NaN
      [] b.n = 0 /\ a.n > 0 -> Inf(1)
      [] b.n = 0 /\ a.n < 0 -> Inf(-1)
      [] OTHER -> Num(a.n * b.d, a.d * b.n)

\* a <= b for finite a, b
Leq(a, b) == a.n * b.d <= b.n * a.d

\* the threshold 1e-8 is 1 / ClampDen
ClampDen == 100000000

\* BelowThreshold as if only negative values were replaced (v < 0)
BelowZero(v) ==
    CASE v.k = "nan" -> FALSE
      [] OTHER -> v.n < 0

\* v < 1e-8; a comparison with nan is False
BelowThreshold(v) ==
    CASE v.k = "nan" -> FALSE
      [] v.k = "inf" -> v.n < 0
      [] OTHER -> v.n * ClampDen < v.d

\* the values of s in ascending order
RECURSIVE Sorted(_)
Sorted(s) ==
    IF Len(s) <= 1 THEN s
    ELSE LET rest == Sorted(Tail(s))
             small == SelectSeq(rest, LAMBDA x : ~Leq(Head(s), x))
             large == SelectSeq(rest, LAMBDA x : Leq(Head(s), x))
         IN  small \o <<Head(s)>> \o large

\* the sum of a sequence of finite values
RECURSIVE SumOf(_)
SumOf(s) == IF s = <<>> THEN Num(0, 1) ELSE Sub(Head(s), Sub(Num(0, 1), SumOf(Tail(s))))

\* the mean in place of the median (np.nanmean for np.nanmedian)
MeanOfSorted(s) == Div(SumOf(s), Num(Len(s), 1))

\* the median of a non-empty sorted sequence: the middle value, or the mean
\* of the two middle values
MedianOfSorted(s) ==
    LET n == Len(s)
    IN  IF n % 2 = 1 THEN s[(n + 1) \div 2]
        ELSE Div(Sub(s[n \div 2], Sub(Num(0, 1), s[n \div 2 + 1])), Num(2, 1))

\* np.nanmedian of a sequence of values: nan entries are left out; nan when
\* nothing is left (an empty or all-nan slice gives nan and a warning)
NanMedian(vals) ==
    LET kept == SelectSeq(vals, LAMBDA x : x.k # "nan")
    IN  IF kept = <<>> THEN NaN ELSE MedianOfSorted(Sorted(kept))

\* a numpy result: an array of pixels, or a 0-d scalar
Array(data) == [shape |-> "array", data |-> data]
Scalar(v) == [shape |-> "scalar", data |-> <<v>>]

\* element p of x, a scalar being broadcast
At(x, p) == IF x.shape = "scalar" THEN x.data[1] ELSE x.data[p]

\* np.nanmedian(stack, axis=0) of a list of images of NPix pixels each: of an
\* empty list it is the scalar nan
NanMedianAxis0(stack, npix) ==
    IF stack = <<>> THEN Scalar(NaN)
    ELSE Array([p \in 1..npix |->
                   NanMedian([i \in 1..Len(stack) |-> stack[i][p]])])

\* np.nanmedian(x) over all the elements of x
NanMedianAll(x) == NanMedian(x.data)

\* combined_dark
CombinedDark(dark_imgs, npix) == NanMedianAxis0(dark_imgs, npix)

\* flats: fits.getdata(flat) - combined_dark for each flat
DarkSubtracted(flat_imgs, cd, npix) ==
    [i \in 1..Len(flat_imgs) |-> [p \in 1..npix |-> Sub(flat_imgs[i][p], At(cd, p))]]

\* combined_flat after `combined_flat /= np.nanmedian(combined_flat)`
NormalizedFlat(flat_imgs, cd, npix) ==
    LET combined_flat == NanMedianAxis0(DarkSubtracted(flat_imgs, cd, npix), npix)
        m == NanMedianAll(combined_flat)
    IN  [combined_flat EXCEPT
            !.data = [p \in 1..Len(combined_flat.data) |-> Div(combined_flat.data[p], m)]]

\* combined_flat[combined_flat < 1e-8] = 1.0
Clamped(cf) ==
    [cf EXCEPT !.data = [p \in 1..Len(cf.data) |->
                            IF BelowThreshold(cf.data[p]) THEN Num(1, 1) ELSE cf.data[p]]]

\* reduced_science = (science - combined_dark) / combined_flat
ReducedScience(sci, cd, cf, npix) ==
    [p \in 1..npix |-> Div(Sub(sci[p], At(cd, p)), At(cf, p))]

\* the inputs of the reductions the model runs: images of two pixels
Pixels == 1..2
\* at most this many flats
MaxStack == 2
\* at most this many darks
MaxDarks == 3
SciValues == {4, 5}
FlatValues == {1, 3}
DarkValues == {1, 2}
Images(values) == { [p \in Pixels |-> Num(img[p], 1)] : img \in [Pixels -> values] }
Stacks(values, max) ==
    UNION { [1..n -> Images(values)] : n \in 0..max }

\* a dark stack of three images: [[2,4],[2,6],[2,8]]
ExampleDarks ==
    << <<Num(2, 1), Num(4, 1)>>, <<Num(2, 1), Num(6, 1)>>, <<Num(2, 1), Num(8, 1)>> >>

InitReduce ==
    /\ dir = <<>>
    /\ raw_files = <<>>
    /\ flats = <<>>
    /\ darks = <<>>
    /\ science = <<>>
    /\ reduced_data = <<>>
    /\ pc = "idle"
    /\ idx = 0
    /\ raw_file_id = 0
    /\ err = NoErr
    /\ out = <<>>
    /\ runs = 0
    /\ prevCatalog = NoCatalog
    /\ ret = NoRet
    /\ science_data \in Images(SciValues)
    /\ flat_data \in Stacks(FlatValues, MaxStack)
    /\ dark_data \in Stacks(DarkValues, MaxDarks) \cup {ExampleDarks}
    /\ out_file = NoFile
    /\ red_pc = "start"
    /\ raw_run = <<>>
    /\ procs = NoProcs

\* reduce_science_file(science_file_path, flat_files, dark_files, output path)
Reduce ==
    /\ red_pc = "start"
    /\ LET npix == Len(science_data)
           combined_dark == CombinedDark(dark_data, npix)
           combined_flat == NormalizedFlat(flat_data, combined_dark, npix)
       IN  IF combined_flat.shape = "scalar"
           THEN \* item assignment to a numpy.float64 raises TypeError
                /\ red_pc' = "raised"
                /\ out_file' = out_file
           ELSE \* fits.writeto(..., overwrite=True)
                /\ red_pc' = "written"
                /\ out_file' =
                     [data |-> ReducedScience(science_data, combined_dark,
                                              Clamped(combined_flat), npix),
                      REDUC |-> "bias sub and flat field"]
    /\ UNCHANGED <<dir, raw_files, flats, darks, science, reduced_data, pc, idx,
                   raw_file_id, err, out, runs, prevCatalog, ret,
                   science_data, flat_data, dark_data, raw_run, procs>>

NextReduce == Reduce

SpecReduce == InitReduce /\ [][NextReduce]_vars

(***************************************************************************)
(* The store called directly: any sequence of add_raw_file, add_flat,      *)
(* add_dark, add_science and add_reduced_data on one connection.           *)
(***************************************************************************)
\* the store holds at most this many rows over all its tables
MaxRows == 3
\* add_science prints at most this many diagnostics
MaxPrints == 1

\* the arguments of the direct calls
RawIdArgs == {1, 2}
FilterArgs == {"R", "V"}
ObjectArgs == {"a", "c"}
StoreFiles == { [path |-> PathOf(i), header |-> HdrBase] : i \in RawIdArgs }

StoreFull ==
    Len(raw_files) + Len(flats) + Len(darks) + Len(science) + Len(reduced_data)
        >= MaxRows

\* FlatConflict as if raw_file_id were not UNIQUE
NoConflict(rid) == FALSE

\* flats.raw_file_id is UNIQUE: INSERT OR IGNORE skips the row
FlatConflict(rid) == \E f \in Rows(flats) : f.raw_file_id = rid

\* darks.raw_file_id is UNIQUE: INSERT OR IGNORE skips the row
DarkConflict(rid) == \E d \in Rows(darks) : d.raw_file_id = rid

\* science.raw_file_id is UNIQUE: the plain INSERT raises
ScienceRawConflict(rid) ==
    \E s \in Rows(science) : s.raw_file_id = rid

\* what the store calls leave alone
StoreFrame ==
    /\ UNCHANGED redVars
    /\ UNCHANGED procs
    /\ UNCHANGED <<dir, pc, idx, raw_file_id, err, runs, prevCatalog>>

AddRawFile(f) ==
    /\ raw_file_exists(FileInfo(f).path) \/ ~StoreFull
    /\ IF raw_file_exists(FileInfo(f).path)
       THEN /\ ret' = Ret("add_raw_file", f.path, "none", "", "", {}, {}, <<>>)
            /\ UNCHANGED <<raw_files, raw_run>>
       ELSE /\ raw_files' = Append(raw_files, RawRow(FileInfo(f)))
            /\ raw_run' = Append(raw_run, runs)
            /\ ret' = Ret("add_raw_file", f.path, "return", "", "", {}, {}, <<>>)
    /\ StoreFrame
    /\ UNCHANGED <<flats, darks, science, reduced_data, out>>

AddFlat(rid, binning, filter_name, read_speed) ==
    /\ FlatConflict(rid) \/ ~StoreFull
    /\ flats' = IF FlatConflict(rid)
                THEN flats
                ELSE Append(flats, FlatRow(rid, binning, filter_name, read_speed))
    /\ ret' = Ret("add_flat", ToString(rid) \o "," \o filter_name, "return", "",
                  "", {}, {}, <<>>)
    /\ StoreFrame
    /\ UNCHANGED <<raw_files, raw_run, darks, science, reduced_data, out>>

AddDark(rid, binning, read_speed) ==
    /\ DarkConflict(rid) \/ ~StoreFull
    /\ darks' = IF DarkConflict(rid)
                THEN darks
                ELSE Append(darks, DarkRow(rid, binning, read_speed))
    /\ ret' = Ret("add_dark", ToString(rid), "return", "", "", {}, {}, <<>>)
    /\ StoreFrame
    /\ UNCHANGED <<raw_files, raw_run, flats, science, reduced_data, out>>

AddScience(rid, object_name, date) ==
    /\ IF science_key_exists(unique_key(object_name, date))
       THEN \* print and return None
            /\ Len(out) < MaxPrints
            /\ out' = Append(out, Msg("science_exists", unique_key(object_name, date)))
            /\ ret' = Ret("add_science", unique_key(object_name, date), "none", "",
                          "", {}, {}, <<>>)
            /\ UNCHANGED science
       ELSE IF ScienceRawConflict(rid)
       THEN \* the INSERT raises: UNIQUE constraint failed: science.raw_file_id
            /\ ret' = Ret("add_science", unique_key(object_name, date), "raise",
                          "IntegrityError", "", {}, {}, <<>>)
            /\ UNCHANGED <<science, out>>
       ELSE /\ ~StoreFull
            /\ science' = Append(science, ScienceRow(rid, object_name, date))
            /\ ret' = Ret("add_science", unique_key(object_name, date), "return", "",
                          "", {}, {}, <<>>)
            /\ UNCHANGED out
    /\ StoreFrame
    /\ UNCHANGED <<raw_files, raw_run, flats, darks, reduced_data>>

\* add_reduced_data on a store with room for the row it may insert
AddReduced(science_unique_key, reduced_path) ==
    /\ ReducedConflict(science_unique_key, reduced_path) \/ ~StoreFull
    /\ AddReducedData(science_unique_key, reduced_path)

NextStore ==
    \/ \E f \in StoreFiles : AddRawFile(f)
    \/ \E rid \in RawIdArgs, filter_name \in FilterArgs :
          AddFlat(rid, "1x1", filter_name, "fast")
    \/ \E rid \in RawIdArgs : AddDark(rid, "1x1", "fast")
    \/ \E rid \in RawIdArgs, object_name \in ObjectArgs :
          AddScience(rid, object_name, "d")
    \/ \E k \in KeyArgs, p \in ReducedPaths : AddReduced(k, p)

\* a freshly created store
InitStore ==
    /\ dir = <<>>
    /\ raw_files = <<>>
    /\ flats = <<>>
    /\ darks = <<>>
    /\ science = <<>>
    /\ reduced_data = <<>>
    /\ pc = "idle"
    /\ idx = 0
    /\ raw_file_id = 0
    /\ err = NoErr
    /\ out = <<>>
    /\ runs = 0
    /\ prevCatalog = NoCatalog
    /\ ret = NoRet
    /\ NoReduction
    /\ raw_run = <<>>
    /\ procs = NoProcs

SpecStore == InitStore /\ [][NextStore]_vars

(***************************************************************************)
(* Several processes on one store, each with its own connection, each      *)
(* making one call of add_raw_file or add_science.  A statement (the       *)
(* SELECT of the check, the INSERT with its commit) is atomic; the calls   *)
(* interleave between statements.                                          *)
(***************************************************************************)
\* the number of processes
MaxProcs == 2

\* a process: where its call is, the call and its outcome
Proc(at, op, file, rid, object_name, date, outcome, exc) ==
    [at |-> at, op |-> op, file |-> file, rid |-> rid, object_name |-> object_name,
     date |-> date, outcome |-> outcome, exc |-> exc]
NoFileArg == [path |-> "", header |-> HdrBase]
Idle == Proc("start", "", NoFileArg, 0, "", "", "", "")

\* what the steps of a process leave alone
ProcFrame ==
    /\ UNCHANGED redVars
    /\ UNCHANGED <<dir, pc, idx, raw_file_id, err, runs, prevCatalog, ret,
                   flats, darks, reduced_data>>

\* add_raw_file(file_info) up to `if self.raw_file_exists(...)`
RawFileCheck(p, f) ==
    /\ procs[p].at = "start"
    /\ procs' = [procs EXCEPT ![p] =
          IF raw_file_exists(FileInfo(f).path)
          THEN Proc("done", "add_raw_file", f, 0, "", "", "none", "")
          ELSE Proc("insert", "add_raw_file", f, 0, "", "", "", "")]
    /\ ProcFrame
    /\ UNCHANGED <<raw_files, raw_run, science, out>>

\* add_raw_file: the INSERT and the commit; raw_files.path is UNIQUE
RawFileInsert(p) ==
    /\ procs[p].at = "insert"
    /\ procs[p].op = "add_raw_file"
    /\ IF raw_file_exists(FileInfo(procs[p].file).path)
       THEN \* UNIQUE constraint failed: raw_files.path
            /\ procs' = [procs EXCEPT ![p].at = "done", ![p].outcome = "raise",
                                      ![p].exc = "IntegrityError"]
            /\ UNCHANGED <<raw_files, raw_run>>
       ELSE /\ raw_files' = Append(raw_files, RawRow(FileInfo(procs[p].file)))
            /\ raw_run' = Append(raw_run, runs)
            /\ procs' = [procs EXCEPT ![p].at = "done", ![p].outcome = "return"]
    /\ ProcFrame
    /\ UNCHANGED <<science, out>>

\* add_science(raw_file_id, object_name, date) up to `if cursor.fetchone()`
ScienceCheck(p, rid, object_name, date) ==
    /\ procs[p].at = "start"
    /\ IF science_key_exists(unique_key(object_name, date))
       THEN /\ out' = Append(out, Msg("science_exists", unique_key(object_name, date)))
            /\ procs' = [procs EXCEPT ![p] =
                  Proc("done", "add_science", NoFileArg, rid, object_name, date,
                       "none", "")]
       ELSE /\ procs' = [procs EXCEPT ![p] =
                  Proc("insert", "add_science", NoFileArg, rid, object_name, date,
                       "", "")]
            /\ UNCHANGED out
    /\ ProcFrame
    /\ UNCHANGED <<raw_files, raw_run, science>>

\* add_science: the INSERT and the commit; science.unique_key and
\* science.raw_file_id are UNIQUE
ScienceInsert(p) ==
    /\ procs[p].at = "insert"
    /\ procs[p].op = "add_science"
    /\ IF \/ science_key_exists(unique_key(procs[p].object_name, procs[p].date))
          \/ ScienceRawConflict(procs[p].rid)
       THEN \* UNIQUE constraint failed
            /\ procs' = [procs EXCEPT ![p].at = "done", ![p].outcome = "raise",
                                      ![p].exc = "IntegrityError"]
            /\ UNCHANGED science
       ELSE /\ science' = Append(science, ScienceRow(procs[p].rid,
                                      procs[p].object_name, procs[p].date))
            /\ procs' = [procs EXCEPT ![p].at = "done", ![p].outcome = "return"]
    /\ ProcFrame
    /\ UNCHANGED <<raw_files, raw_run, out>>

NextConc ==
    \/ \E p \in 1..MaxProcs, f \in StoreFiles : RawFileCheck(p, f)
    \/ \E p \in 1..MaxProcs : RawFileInsert(p)
    \/ \E p \in 1..MaxProcs, rid \in RawIdArgs, object_name \in ObjectArgs :
          ScienceCheck(p, rid, object_name, "d")
    \/ \E p \in 1..MaxProcs : ScienceInsert(p)

\* a freshly created store and processes that have not called it yet
InitConc ==
    /\ dir = <<>>
    /\ raw_files = <<>>
    /\ flats = <<>>
    /\ darks = <<>>
    /\ science = <<>>
    /\ reduced_data = <<>>
    /\ pc = "idle"
    /\ idx = 0
    /\ raw_file_id = 0
    /\ err = NoErr
    /\ out = <<>>
    /\ runs = 0
    /\ prevCatalog = NoCatalog
    /\ ret = NoRet
    /\ NoReduction
    /\ raw_run = <<>>
    /\ procs = [p \in 1..MaxProcs |-> Idle]

SpecConc == InitConc /\ [][NextConc]_vars

(***************************************************************************)
(* Properties.                                                             *)
(***************************************************************************)
\* the file of the directory with this path
FileAt(path) == CHOOSE f \in Rows(dir) : f.path = path

\* a run of register_fits_files has ended: the loop finished or an
\* exception left it
RunEnded == pc \in {"done", "aborted"}

\* the last thing printed
LastOut == out[Len(out)]

\* C1: ingestion is idempotent per path: one raw_files row per path, and a
\* run over files that an earlier run has gone through leaves the catalog
\* (raw_files, flats, darks, science) as that run left it.
C1_IngestionIdempotent ==
    /\ \A i, j \in 1..Len(raw_files) :
          raw_files[i].path = raw_files[j].path => i = j
    /\ (RunEnded /\ prevCatalog # NoCatalog) => catalog = prevCatalog

\* the part of C1 that the code keeps: one raw_files row per path
C1_OneRowPerPath ==
    \A i, j \in 1..Len(raw_files) :
        raw_files[i].path = raw_files[j].path => i = j

\* add_science is called with a key that a science row has already
DuplicateScienceCall ==
    /\ pc = "classify"
    /\ pc' = "open"
    /\ raw_files[raw_file_id].category = "SCIENCE"
    /\ \E i \in 1..Len(science) :
          science[i].unique_key =
              raw_files[raw_file_id].object_name \o "__" \o raw_files[raw_file_id].date

\* C2: every science row's unique_key is objectName "__" dateObs of its own
\* values, no two science rows share a unique_key, and add_science with a
\* key that exists prints a diagnostic and leaves the science table as it
\* is; science rows recorded earlier are never changed.
C2_UniqueKey ==
    /\ [](\A i \in 1..Len(science) :
            /\ science[i].unique_key = science[i].object_name \o "__" \o science[i].date
            /\ \A j \in 1..Len(science) :
                  science[i].unique_key = science[j].unique_key => i = j)
    /\ [][ /\ DuplicateScienceCall =>
                /\ science' = science
                /\ out' = Append(out, Msg("science_exists",
                       raw_files[raw_file_id].object_name \o "__"
                           \o raw_files[raw_file_id].date))
           /\ \A i \in 1..Len(science) : Len(science') >= i /\ science'[i] = science[i]
         ]_vars

\* C2 witness: a second science file with the key of a cataloged one was
\* turned down
C2_Witness ==
    /\ Len(science) = 1
    /\ Len(raw_files) = 2
    /\ raw_files[2].category = "SCIENCE"
    /\ raw_files[2].object_name \o "__" \o raw_files[2].date = science[1].unique_key
    /\ pc = "open"
    /\ idx = 3
    /\ out # <<>>
    /\ LastOut = Msg("science_exists", science[1].unique_key)

\* the science exposure's raw_files row for a cataloged key
ScienceExposure(key) ==
    CHOOSE rf \in Rows(raw_files) :
        \E s \in Rows(science) : s.unique_key = key /\ s.raw_file_id = rf.id

\* C3: matcher soundness: every flat get_files_for_science returns has the
\* science exposure's binning, read_speed and filter, and every dark its
\* binning and read_speed.
C3_MatcherSound ==
    (ret.op = "get_files_for_science" /\ ret.outcome = "return") =>
        LET sci == ScienceExposure(ret.arg)
        IN  /\ \A f \in ret.flats :
                  /\ f.binning = sci.binning
                  /\ f.read_speed = sci.read_speed
                  /\ f.filter = sci.filter
            /\ \A d \in ret.darks :
                  /\ d.binning = sci.binning
                  /\ d.read_speed = sci.read_speed

\* C3 witness: the matcher returned a flat while the catalog holds another
\* flat, of another filter, that it left out
C3_Witness ==
    /\ ret.op = "get_files_for_science"
    /\ ret.outcome = "return"
    /\ ret.flats # {}
    /\ \E f \in Rows(flats) :
          /\ f.filter # ScienceExposure(ret.arg).filter
          /\ \A r \in ret.flats : r.id # f.raw_file_id

\* C4: get_unreduced_science_files returns exactly the science keys that no
\* reduced_data row has as its science_unique_key, each once.
C4_UnreducedExact ==
    ret.op = "get_unreduced_science_files" =>
        /\ { ret.keys[i] : i \in 1..Len(ret.keys) } =
              { s.unique_key : s \in Rows(science) } \
                  { r.science_unique_key : r \in Rows(reduced_data) }
        /\ \A i, j \in 1..Len(ret.keys) : ret.keys[i] = ret.keys[j] => i = j

\* C4 witness: one science key is reduced and left out, another is returned
C4_Witness ==
    /\ ret.op = "get_unreduced_science_files"
    /\ Len(ret.keys) = 1
    /\ Len(science) = 2
    /\ \E r \in Rows(reduced_data) : \E s \in Rows(science) :
          r.science_unique_key = s.unique_key

\* the step of register_fits_files that classifies the file just registered
ClassifyStep == pc = "classify" /\ pc' \in {"open", "aborted"}

\* "FLAT" occurs in type
HasFlatSubstring(type) ==
    /\ type # NULL
    /\ \E i \in 1..Len(type) : i + 3 <= Len(type) /\ SubSeq(type, i, i + 3) = "FLAT"

\* the rows the classification of raw_files row r adds: one flats row, one
\* darks row, one science row or none, as flat / dark / sci say
ClassifiedAs(r, flat, dark, sci) ==
    /\ raw_files' = raw_files
    /\ flats' = IF flat
                THEN Append(flats, [id |-> Len(flats) + 1, raw_file_id |-> r.id,
                                    binning |-> r.binning, filter |-> r.filter,
                                    read_speed |-> r.read_speed])
                ELSE flats
    /\ darks' = IF dark
                THEN Append(darks, [id |-> Len(darks) + 1, raw_file_id |-> r.id,
                                    binning |-> r.binning, read_speed |-> r.read_speed])
                ELSE darks
    /\ science' = IF sci
                  THEN Append(science, [id |-> Len(science) + 1, raw_file_id |-> r.id,
                                        unique_key |-> r.object_name \o "__" \o r.date,
                                        object_name |-> r.object_name, date |-> r.date])
                  ELSE science

\* the key of raw_files row r is free
KeyFree(r) ==
    \A s \in Rows(science) : s.unique_key # r.object_name \o "__" \o r.date

\* C5 as stated: flats row iff CALIB and type contains FLAT; darks row iff
\* CALIB and type is DARK; science row iff SCIENCE with objectName and
\* dateObs present and the key free; otherwise the raw_files row only.
C5_ClassificationAsStated ==
    [][ClassifyStep =>
          LET r == raw_files[raw_file_id]
          IN  ClassifiedAs(r,
                  r.category = "CALIB" /\ HasFlatSubstring(r.type),
                  r.category = "CALIB" /\ ~HasFlatSubstring(r.type) /\ r.type = "DARK",
                  /\ r.category = "SCIENCE"
                  /\ r.object_name # NULL
                  /\ r.date # NULL
                  /\ KeyFree(r))
       ]_vars

\* C5 amended: as C5, with "present" read as present and not the empty
\* string for objectName and dateObs.
C5_Classification ==
    [][ClassifyStep =>
          LET r == raw_files[raw_file_id]
          IN  ClassifiedAs(r,
                  r.category = "CALIB" /\ HasFlatSubstring(r.type),
                  r.category = "CALIB" /\ ~HasFlatSubstring(r.type) /\ r.type = "DARK",
                  /\ r.category = "SCIENCE"
                  /\ r.object_name \notin {NULL, ""}
                  /\ r.date \notin {NULL, ""}
                  /\ KeyFree(r))
       ]_vars

\* C5 witness: a file whose type contains FLAT among other words got its
\* flats row, and a SCIENCE file with an empty objectName was classified and
\* got no science row
C5_Witness ==
    /\ pc = "done"
    /\ Len(raw_files) = 2
    /\ Len(flats) = 1
    /\ raw_files[flats[1].raw_file_id].type = "FLAT,SKY"
    /\ raw_files[2].category = "SCIENCE"
    /\ raw_files[2].object_name = ""
    /\ raw_files[2].date # NULL
    /\ science = <<>>
    /\ darks = <<>>

\* the axis-scale fields of the file are missing or no integers
BadAxisScale(f) ==
    \/ f.header.cdelt1.kind # "int"
    \/ f.header.cdelt2.kind # "int"

\* C6: a file whose CDELT1 or CDELT2 is missing or not coercible to integer
\* is skipped: it gets no raw_files row and the run goes on to the next file
\* instead of aborting.
C6_BadAxisScaleSkipped ==
    /\ \A r \in Rows(raw_files) : ~BadAxisScale(FileAt(r.path))
    /\ pc = "aborted" => ~(dir[idx].header.readable /\ BadAxisScale(dir[idx]))

\* C7: no classification-stage condition aborts a run: a run never ends by
\* an exception raised while classifying a registered file.
C7_ClassificationNeverAborts ==
    pc = "aborted" => ~raw_file_exists(dir[idx].path)

\* C8: get_files_for_science with a key that has no science row reports
\* 'no science file with this id' and fails in no other way.
C8_UnknownKeyNotFound ==
    (ret.op = "get_files_for_science"
        /\ \A s \in Rows(science) : s.unique_key # ret.arg) =>
            /\ ret.outcome = "none"
            /\ out # <<>>
            /\ LastOut = Msg("no_science_file", ret.arg)

\* C9: reduce_science_file with an empty list of darks fails and writes no
\* file at the output path, whatever the science file and the flats.
C9_NoDarksFails ==
    (red_pc \notin {"none", "start"} /\ dark_data = <<>>) =>
        /\ red_pc = "raised"
        /\ out_file = NoFile

\* the row that the header of raw_files row r calls for is there
HasClassificationRow(r) ==
    /\ (r.category = "CALIB" /\ HasFlatSubstring(r.type)) =>
          \E f \in Rows(flats) : f.raw_file_id = r.id
    /\ (r.category = "CALIB" /\ r.type = "DARK") =>
          \E d \in Rows(darks) : d.raw_file_id = r.id
    /\ (r.category = "SCIENCE" /\ r.object_name \notin {NULL, ""}
            /\ r.date \notin {NULL, ""}) =>
          \E s \in Rows(science) : s.unique_key = r.object_name \o "__" \o r.date

\* C10: after ingestion has run to completion, whatever was interrupted
\* before, no file has a raw_files row without the classification row its
\* header calls for.
C10_InterruptedRunConsistent ==
    pc = "done" => \A r \in Rows(raw_files) : HasClassificationRow(r)

\* the rows of flats, darks and science that reference raw_files row rid
ReferencesTo(rid) ==
    {<<"flats", i>> : i \in {j \in 1..Len(flats) : flats[j].raw_file_id = rid}}
    \cup {<<"darks", i>> : i \in {j \in 1..Len(darks) : darks[j].raw_file_id = rid}}
    \cup {<<"science", i>> : i \in {j \in 1..Len(science) : science[j].raw_file_id = rid}}

\* C19: in every state reachable through ingestion runs, each raw_files row
\* is referenced by at most one row among flats, darks and science, every
\* flats/darks/science row references an existing raw_files row, and the
\* binning, filter and read_speed of a flats or darks row equal those of the
\* raw_files row it references
C19_ReferencesConsistent ==
    /\ \A rid \in 1..Len(raw_files) :
           /\ raw_files[rid].id = rid
           /\ Cardinality(ReferencesTo(rid)) <= 1
    /\ \A i \in 1..Len(flats) :
           /\ flats[i].raw_file_id \in 1..Len(raw_files)
           /\ flats[i].binning = raw_files[flats[i].raw_file_id].binning
           /\ flats[i].filter = raw_files[flats[i].raw_file_id].filter
           /\ flats[i].read_speed = raw_files[flats[i].raw_file_id].read_speed
    /\ \A i \in 1..Len(darks) :
           /\ darks[i].raw_file_id \in 1..Len(raw_files)
           /\ darks[i].binning = raw_files[darks[i].raw_file_id].binning
           /\ darks[i].read_speed = raw_files[darks[i].raw_file_id].read_speed
    /\ \A i \in 1..Len(science) : science[i].raw_file_id \in 1..Len(raw_files)

\* a flat and a dark have been cataloged from the same directory
C19_Witness ==
    /\ Len(flats) >= 1
    /\ Len(darks) >= 1
    /\ flats[1].filter # flats[1].read_speed

\* C14: every reduced_data row's science_unique_key is the unique_key of an
\* existing science row: add_reduced_data for a key with no science row
\* creates no reduced_data row
C14_ReducedReferencesScience ==
    \A i \in 1..Len(reduced_data) :
        \E j \in 1..Len(science) :
            science[j].unique_key = reduced_data[i].science_unique_key

\* C17: matcher completeness: for a cataloged science key,
\* get_files_for_science returns the science path, every cataloged flat whose
\* binning, read_speed and filter equal the science exposure's and every
\* cataloged dark whose binning and read_speed equal them, absent (null)
\* values included; it returns empty sets when nothing matches
C17_MatcherComplete ==
    (/\ ret.op = "get_files_for_science"
     /\ \E s \in Rows(science) : s.unique_key = ret.arg) =>
        LET sci == ScienceExposure(ret.arg)
        IN  /\ ret.outcome = "return"
            /\ ret.path = sci.path
            /\ \A f \in Rows(flats) :
                  (/\ f.binning = sci.binning
                   /\ f.read_speed = sci.read_speed
                   /\ f.filter = sci.filter) =>
                      \E rf \in ret.flats : rf.id = f.raw_file_id
            /\ \A d \in Rows(darks) :
                  (/\ d.binning = sci.binning
                   /\ d.read_speed = sci.read_speed) =>
                      \E rf \in ret.darks : rf.id = d.raw_file_id

\* key k is the unique_key of a science row
Cataloged(k) == \E s \in Rows(science) : s.unique_key = k

\* key k is absent from what get_unreduced_science_files returns
Retired(k) == \A i \in 1..Len(UnreducedKeys) : UnreducedKeys[i] # k

\* path p is the reduced_path of a row recorded for another key than k
PathOfOtherKey(k, p) ==
    \E r \in Rows(reduced_data) : r.reduced_path = p /\ r.science_unique_key # k

\* C18 as stated: after add_reduced_data(k, p) returns for a cataloged key k
\* and any path p, k is absent from get_unreduced_science_files in that state
\* and in every later state, whatever reduced_data rows already existed
C18_RetiredForAnyPath ==
    /\ [][\A k \in KeyArgs, p \in ReducedPaths :
            (AddReducedData(k, p) /\ Cataloged(k)) => Retired(k)']_vars
    /\ [][\A k \in KeyArgs : (Cataloged(k) /\ Retired(k)) => Retired(k)']_vars

\* C18: after add_reduced_data(k, p) returns for a cataloged key k and a path
\* p that no reduced_data row of another key has, k is absent from
\* get_unreduced_science_files in that state and in every later state
C18_RetiredForFreshPath ==
    /\ [][\A k \in KeyArgs, p \in ReducedPaths :
            (AddReducedData(k, p) /\ Cataloged(k) /\ ~PathOfOtherKey(k, p))
                => Retired(k)']_vars
    /\ [][\A k \in KeyArgs : (Cataloged(k) /\ Retired(k)) => Retired(k)']_vars

\* C18 witness: a second cataloged key was recorded while the first key's
\* row, with another path, was already there; nothing is left to reduce
C18_Witness ==
    /\ ret.op = "add_reduced_data"
    /\ Len(reduced_data) = 2
    /\ Len(science) = 2
    /\ \A i \in 1..2 : Cataloged(reduced_data[i].science_unique_key)
    /\ UnreducedKeys = <<>>

\* the k-th smallest value of the sequence s of finite values
KthSmallest(s, k) ==
    CHOOSE x \in Rows(s) :
        /\ Cardinality({i \in 1..Len(s) : Leq(s[i], x)}) >= k
        /\ Cardinality({i \in 1..Len(s) : Leq(x, s[i])}) >= Len(s) - k + 1

\* the median by order statistics: the middle value of an odd number of
\* values, half the sum of the two middle values of an even number
Median(vals) ==
    LET s == SelectSeq(vals, LAMBDA x : TRUE)
    IN  IF Len(s) % 2 = 1
        THEN KthSmallest(s, (Len(s) + 1) \div 2)
        ELSE LET lo == KthSmallest(s, Len(s) \div 2)
                 hi == KthSmallest(s, Len(s) \div 2 + 1)
             IN  Num(lo.n * hi.d + hi.n * lo.d, 2 * lo.d * hi.d)

\* the per-pixel median of the dark stack
ExpectedDark(p) == Median([i \in 1..Len(dark_data) |-> dark_data[i][p]])

\* the per-pixel median of the flats minus the combined dark
ExpectedRawFlat(p) ==
    LET cd == ExpectedDark(p)
    IN  Median([i \in 1..Len(flat_data) |-> Sub(flat_data[i][p], cd)])

\* that, divided by its median over all pixels
ExpectedFlat(p) ==
    Div(ExpectedRawFlat(p),
        Median([q \in 1..Len(science_data) |-> ExpectedRawFlat(q)]))

\* a normalised flat value below 1e-8: negative, zero, or a tiny positive
Below1e8(v) ==
    \/ v.k = "inf" /\ v.n < 0
    \/ v.k = "num" /\ v.n * ClampDen < v.d

\* reduce_science_file wrote its output from non-empty stacks
ReducedFromStacks ==
    /\ red_pc = "written"
    /\ flat_data # <<>>
    /\ dark_data # <<>>

\* C12: for non-empty dark and flat stacks, at every pixel whose normalised
\* combined flat is below 1e-8 (zero and negative values included) the flat
\* is taken as 1.0: the reduced pixel equals science minus combined dark
C12_Clamp ==
    ReducedFromStacks =>
        \A p \in 1..Len(science_data) :
            Below1e8(ExpectedFlat(p)) =>
                out_file.data[p] = Sub(science_data[p], ExpectedDark(p))

\* C12 witness: one pixel's normalised flat is zero and was replaced, the
\* other pixel's is not below the threshold
C12_Witness ==
    /\ ReducedFromStacks
    /\ \E p \in 1..Len(science_data) : ExpectedFlat(p) = Num(0, 1)
    /\ \E p \in 1..Len(science_data) : ~Below1e8(ExpectedFlat(p))

\* C13: for non-empty stacks the combined dark is the per-pixel median of the
\* dark stack ([[2,4],[2,6],[2,8]] gives [2,6]), the combined flat the
\* per-pixel median of the flats minus the combined dark, divided by its
\* median over all pixels, and each unclamped reduced pixel is
\* (science - combinedDark) / combinedFlat; the median of an even number of
\* values is the mean of the two middle ones, and the mean of the stack is
\* not used in its place
C13_ReductionFormula ==
    ReducedFromStacks =>
        /\ \A p \in 1..Len(science_data) :
              LET cf == ExpectedFlat(p)
              IN  ~Below1e8(cf) =>
                      out_file.data[p] =
                          Div(Sub(science_data[p], ExpectedDark(p)), cf)
        /\ dark_data = ExampleDarks =>
              /\ <<ExpectedDark(1), ExpectedDark(2)>> = <<Num(2, 1), Num(6, 1)>>
              /\ \A p \in 1..Len(science_data) :
                    LET cf == ExpectedFlat(p)
                    IN  ~Below1e8(cf) =>
                            out_file.data[p] =
                                Div(Sub(science_data[p], <<Num(2, 1), Num(6, 1)>>[p]),
                                    cf)

\* C13 witness: three darks whose per-pixel median differs from their mean,
\* two flats, and an unclamped pixel with a finite value
C13_Witness ==
    /\ ReducedFromStacks
    /\ Len(dark_data) = 3
    /\ Len(flat_data) = 2
    /\ \E p \in 1..Len(science_data) :
          /\ ExpectedDark(p) #
                Num(dark_data[1][p].n + dark_data[2][p].n + dark_data[3][p].n, 3)
          /\ ~Below1e8(ExpectedFlat(p))
          /\ out_file.data[p].k = "num"

\* every row of table before is in table after, in place and unchanged
RowsKept(before, after) ==
    /\ Len(after) >= Len(before)
    /\ \A i \in 1..Len(before) : after[i] = before[i]

\* the row the step appended to the table, if it appended one, references a
\* raw_files row that the running pass inserted
AppendedInPassOfRaw(before, after) ==
    Len(after) > Len(before) =>
        /\ pc = "classify"
        /\ after[Len(after)].raw_file_id \in 1..Len(raw_run)
        /\ raw_run[after[Len(after)].raw_file_id] = runs

\* C15: catalog rows are write-once: a raw_files, flats, darks or science
\* row that exists in a state exists unchanged in every later state, and a
\* flats/darks/science row is created only in the ingestion pass that
\* created the raw_files row it belongs to
C15_WriteOnce ==
    /\ [][/\ RowsKept(raw_files, raw_files')
           /\ RowsKept(flats, flats')
           /\ RowsKept(darks, darks')
           /\ RowsKept(science, science')]_vars
    /\ [][/\ AppendedInPassOfRaw(flats, flats')
           /\ AppendedInPassOfRaw(darks, darks')
           /\ AppendedInPassOfRaw(science, science')]_vars

\* C15 witness: the second pass cataloged a dark for a raw row of its own,
\* next to a raw row left by the first pass
C15_Witness ==
    /\ Len(raw_run) = 2
    /\ raw_run[1] = 1
    /\ raw_run[2] = 2
    /\ \E d \in Rows(darks) : d.raw_file_id = 2
    /\ \E r \in Rows(flats) \cup Rows(science) : r.raw_file_id = 1

\* the step changes no table, prints nothing and the call returned
IgnoredQuietly ==
    /\ UNCHANGED <<raw_files, flats, darks, science, reduced_data, out>>
    /\ ret'.outcome = "return"

\* C11: re-recording is an idempotent no-op: add_flat (add_dark) for a
\* raw_file_id that has a flats (darks) row, and add_reduced_data for a key
\* that has a reduced_data row, with the same or another path, do not raise
\* and leave every table unchanged; so there is at most one flats row and one
\* darks row per raw file and at most one reduced_data row per science key
C11_RerecordingNoOp ==
    /\ [](\A i, j \in 1..Len(flats) :
            flats[i].raw_file_id = flats[j].raw_file_id => i = j)
    /\ [](\A i, j \in 1..Len(darks) :
            darks[i].raw_file_id = darks[j].raw_file_id => i = j)
    /\ [](\A i, j \in 1..Len(reduced_data) :
            reduced_data[i].science_unique_key = reduced_data[j].science_unique_key
                => i = j)
    /\ [][\A rid \in RawIdArgs, filter_name \in FilterArgs :
            (/\ AddFlat(rid, "1x1", filter_name, "fast")
             /\ \E i \in 1..Len(flats) : flats[i].raw_file_id = rid)
                => IgnoredQuietly]_vars
    /\ [][\A rid \in RawIdArgs :
            (/\ AddDark(rid, "1x1", "fast")
             /\ \E i \in 1..Len(darks) : darks[i].raw_file_id = rid)
                => IgnoredQuietly]_vars
    /\ [][\A k \in KeyArgs, p \in ReducedPaths :
            (/\ AddReduced(k, p)
             /\ \E i \in 1..Len(reduced_data) :
                    reduced_data[i].science_unique_key = k)
                => IgnoredQuietly]_vars

\* C11 witness: add_flat was called for raw file 1 with filter V and
\* returned; raw file 1 keeps its one flats row, of filter R, next to a
\* reduced_data row
C11_Witness ==
    /\ ret.op = "add_flat"
    /\ ret.arg = "1,V"
    /\ ret.outcome = "return"
    /\ \E i \in 1..Len(flats) : flats[i].raw_file_id = 1 /\ flats[i].filter = "R"
    /\ Len(reduced_data) >= 1

\* processes p and q have both finished a call of op
BothDone(p, q, op) ==
    /\ p # q
    /\ procs[p].at = "done" /\ procs[p].op = op
    /\ procs[q].at = "done" /\ procs[q].op = op

\* C16: concurrent ingestion of one path or key is safe and idempotent:
\* when two processes on one store have run add_raw_file for the same path,
\* or add_science for the same unique key, their checks and inserts
\* interleaved in any order, exactly one row results and neither call failed
\* with a uniqueness violation
C16_ConcurrentSafe ==
    \A p, q \in 1..MaxProcs :
        /\ (BothDone(p, q, "add_raw_file") /\ procs[p].file = procs[q].file) =>
              /\ Cardinality({i \in 1..Len(raw_files) :
                                raw_files[i].path = procs[p].file.path}) = 1
              /\ procs[p].outcome # "raise"
              /\ procs[q].outcome # "raise"
        /\ (/\ BothDone(p, q, "add_science")
            /\ procs[p].object_name = procs[q].object_name
            /\ procs[p].date = procs[q].date) =>
              /\ Cardinality({i \in 1..Len(science) :
                                science[i].object_name = procs[p].object_name
                                /\ science[i].date = procs[p].date}) = 1
              /\ procs[p].outcome # "raise"
              /\ procs[q].outcome # "raise"

====
